---- MODULE Spec2Model ----
(***************************************************************************)
(* Model of autoregressive::univariate::Autoregressive<F, N> (src/lib.rs). *)
(*                                                                         *)
(* Numbers of type F are fixed-point: the integer v stands for v / Scale.  *)
(* Addition is integer addition; a product is rescaled (and rounded down), *)
(* so 0.5 * 7.5 is Mul(2, 30) = 15, i.e. 3.75.                             *)
(* The standard-normal draw z made inside Normal::sample is an input of    *)
(* the step actions, taken from ZScores.                                   *)
(***************************************************************************)
EXTENDS Integers, Sequences, FiniteSets

\* ------------------------------------------------------------------ bounds

\* Largest coefficient count N explored.
MaxN == 2

\* Largest number of step()/next() calls on one instance.
MaxSteps == 3

\* ------------------------------------------------------------ type F: Float

\* Fixed-point scale of F: 1.0 is Scale.
Scale == 4

\* num_traits::identities::zero()
zero == 0

\* The value of F that is not a number: a code point outside the range the
\* arithmetic of the model reaches (only ever passed as noise_variance).
NaN == 0 - (Scale * Scale * Scale * Scale * Scale)

is_nan(v) == v = NaN

\* F multiplication, rounded to the representable grid.
Mul(a, b) == (a * b) \div Scale

\* Arguments the callers are given in the model.
Offsets == {0, 5 * Scale}

Coefs == {2, 0 - 3}

NoiseVariances == {NaN, 0 - Scale, 0, Scale, 2 * Scale}

ZScores == {0 - Scale, Scale}

Arrays(n) == [1..n -> Coefs]

\* ------------------------------------------------------------------- state

VARIABLES
    status,     \* "init": new() not called; "live": instance exists; "panicked"
    ar,         \* the Autoregressive instance [c, x, phi, noise], or NoAr
    callerPhi,  \* the caller's array, lent to new() as phi: &[F; N]
    args,       \* the arguments new() was called with (history)
    outputs,    \* values returned by step(), oldest first (history)
    draws,      \* epsilon drawn by each step(), oldest first (history)
    pulls,      \* number of Iterator::next() calls (history)
    last        \* the most recent call on the API and what it returned

vars == <<status, ar, callerPhi, args, outputs, draws, pulls, last>>

\* No instance.
NoAr == [none |-> TRUE]

NoArgs == [none |-> TRUE]

\* The const generic N: the length of the array type [F; N].
N == Len(callerPhi)

\* Option<F>
Some(v) == [some |-> TRUE, val |-> v]

None == [some |-> FALSE]

\* What a call that unwinds hands back.
Panic == [panic |-> TRUE]

\* --------------------------------------------------- rand_distr::Normal<F>

Ok(v) == [ok |-> TRUE, val |-> v]

Err(e) == [ok |-> FALSE, err |-> e]

\* Normal::new(mean, std_dev): the results the linked rand_distr can give.
\* A NaN std_dev is rejected by every release (it is neither >= 0 nor finite);
\* a negative one is rejected by the releases that require std_dev >= 0 and
\* accepted by those that require only a finite one, so both outcomes are
\* possible.
NormalNew(mean, std_dev) ==
    IF is_nan(std_dev) THEN {Err("BadVariance")}
    ELSE IF std_dev < zero
         THEN {Err("BadVariance"), Ok([mean |-> mean, std_dev |-> std_dev])}
         ELSE {Ok([mean |-> mean, std_dev |-> std_dev])}

\* Normal::sample with standard-normal draw z: mean + std_dev * z.
Sample(noise, z) == noise.mean + Mul(noise.std_dev, z)

\* The variance of the distribution a Normal describes: std_dev squared.
Variance(noise) == Mul(noise.std_dev, noise.std_dev)

\* Result::unwrap, with a plausible variant that falls back to a default.
unwrapOrDefault(r) == IF r.ok THEN r.val ELSE [mean |-> zero, std_dev |-> Scale]

unwrap(r) == IF r.ok THEN r.val ELSE Panic

\* --------------------------------------------------------- helper functions

\* A window that starts at one instead of zero.
Ones(n) == [i \in 1..n |-> Scale]

\* [zero; N]
Zeros(n) == [i \in 1..n |-> zero]

\* self.x.iter().zip(self.phi.iter()): pairs up to the shorter length.
Zip(a, b) ==
    LET n == IF Len(a) < Len(b) THEN Len(a) ELSE Len(b)
    IN  [i \in 1..n |-> <<a[i], b[i]>>]

\* .map(|(x, p)| *x * *p)
MapMul(pairs) == [i \in 1..Len(pairs) |-> Mul(pairs[i][1], pairs[i][2])]

\* .sum::<F>(): a left fold from zero.
RECURSIVE SumFrom(_, _, _)
SumFrom(s, i, acc) ==
    IF i > Len(s) THEN acc ELSE SumFrom(s, i + 1, acc + s[i])

Sum(s) == SumFrom(s, 1, zero)

\* slice::rotate_right(k), for a non-empty slice: element i moves to i + k.
rotate_right(s, k) ==
    [i \in 1..Len(s) |-> s[((i - 1 - k) % Len(s)) + 1]]

\* ------------------------------------------------------ Autoregressive::new

\* The outcomes of new(c, noise_variance, phi): the constructed instance, with
\* phi copied (*phi) and the window zeroed, or Panic where unwrap() meets an
\* Err.
new(c, noise_variance, phi) ==
    { LET noise == unwrap(r)
      IN  IF noise = Panic
          THEN Panic
          ELSE [c |-> c, phi |-> phi, x |-> Zeros(Len(phi)), noise |-> noise]
      : r \in NormalNew(zero, noise_variance) }

\* ----------------------------------------------------- Autoregressive::step

\* Variants of step() with one slip each.
\* The window is not rotated before the write.
stepNoRotate(self, epsilon) ==
    LET new_x == self.c + Sum(MapMul(Zip(self.x, self.phi))) + epsilon
    IN  [self |-> IF self.x # <<>>
                  THEN [self EXCEPT !.x = [self.x EXCEPT ![1] = new_x]]
                  ELSE self,
         ret  |-> new_x]

\* The new value is put in front and nothing is discarded.
stepGrow(self, epsilon) ==
    LET new_x == self.c + Sum(MapMul(Zip(self.x, self.phi))) + epsilon
    IN  [self |-> IF self.x # <<>>
                  THEN [self EXCEPT !.x = <<new_x>> \o self.x]
                  ELSE self,
         ret  |-> new_x]

\* The emptiness guard is missing and the write extends the window.
stepNoGuard(self, epsilon) ==
    LET new_x == self.c + Sum(MapMul(Zip(self.x, self.phi))) + epsilon
    IN  [self |-> [self EXCEPT !.x = <<new_x>> \o
                       (IF self.x = <<>> THEN <<>>
                        ELSE SubSeq(self.x, 1, Len(self.x) - 1))],
         ret  |-> new_x]

\* The coefficients are paired with the window back to front.
stepReversed(self, epsilon) ==
    LET rev   == [i \in 1..Len(self.phi) |-> self.phi[Len(self.phi) + 1 - i]]
        new_x == self.c + Sum(MapMul(Zip(self.x, rev))) + epsilon
    IN  [self |-> IF self.x # <<>>
                  THEN [self EXCEPT
                           !.x = [rotate_right(self.x, 1) EXCEPT ![1] = new_x]]
                  ELSE self,
         ret  |-> new_x]

\* phi is rotated along with x.
stepRotatePhi(self, epsilon) ==
    LET new_x == self.c + Sum(MapMul(Zip(self.x, self.phi))) + epsilon
    IN  [self |-> IF self.x # <<>>
                  THEN [self EXCEPT
                           !.x = [rotate_right(self.x, 1) EXCEPT ![1] = new_x],
                           !.phi = rotate_right(self.phi, 1)]
                  ELSE self,
         ret  |-> new_x]

\* step(&mut self) with the drawn epsilon: the instance afterwards and the
\* value returned.
step(self, epsilon) ==
    LET new_x == self.c + Sum(MapMul(Zip(self.x, self.phi))) + epsilon
    IN  [self |-> IF self.x # <<>>
                  THEN [self EXCEPT
                           !.x = [rotate_right(self.x, 1) EXCEPT ![1] = new_x]]
                  ELSE self,
         ret  |-> new_x]

\* ------------------------------------------------------------ Iterator::next

\* A next() that ends the sequence instead of stepping.
nextDone(self, epsilon) == [self |-> self, ret |-> None, stepped |-> <<>>]

\* next(&mut self): Some(self.step()).
next(self, epsilon) ==
    LET r == step(self, epsilon)
    IN  [self |-> r.self, ret |-> Some(r.ret), stepped |-> <<r.ret>>]

\* ----------------------------------------------------------------- actions

Init ==
    /\ status = "init"
    /\ ar = NoAr
    /\ \E n \in 0..MaxN : callerPhi \in Arrays(n)
    /\ args = NoArgs
    /\ outputs = <<>>
    /\ draws = <<>>
    /\ pulls = 0
    /\ last = [op |-> "none"]

\* let ar = Autoregressive::new(c, noise_variance, &callerPhi)
New(c, noise_variance) ==
    /\ status = "init"
    /\ \E o \in new(c, noise_variance, callerPhi) :
          /\ status' = IF o = Panic THEN "panicked" ELSE "live"
          /\ ar' = IF o = Panic THEN NoAr ELSE o
          /\ last' = [op |-> "new", ret |-> o]
    /\ args' = [c |-> c, noise_variance |-> noise_variance, phi |-> callerPhi]
    /\ UNCHANGED <<callerPhi, outputs, draws, pulls>>

\* ar.step(), the noise source drawing z
Step(z) ==
    /\ status = "live"
    /\ Len(outputs) < MaxSteps
    /\ LET epsilon == Sample(ar.noise, z)
           r       == step(ar, epsilon)
       IN  /\ ar' = r.self
           /\ outputs' = Append(outputs, r.ret)
           /\ draws' = Append(draws, epsilon)
           /\ last' = [op |-> "step", ret |-> r.ret]
    /\ UNCHANGED <<status, callerPhi, args, pulls>>

\* ar.next(), the noise source drawing z
IterNext(z) ==
    /\ status = "live"
    /\ Len(outputs) < MaxSteps
    /\ LET epsilon == Sample(ar.noise, z)
           r       == next(ar, epsilon)
       IN  /\ ar' = r.self
           /\ outputs' = outputs \o r.stepped
           /\ draws' = draws \o [i \in 1..Len(r.stepped) |-> epsilon]
           /\ last' = [op |-> "next", ret |-> r.ret]
    /\ pulls' = pulls + 1
    /\ UNCHANGED <<status, callerPhi, args>>

\* The caller writes v into element i of its own array.
MutateCaller(i, v) ==
    /\ i \in 1..N
    /\ v # callerPhi[i]
    /\ callerPhi' = [callerPhi EXCEPT ![i] = v]
    /\ UNCHANGED <<status, ar, args, outputs, draws, pulls, last>>

Next ==
    \/ \E c \in Offsets, nv \in NoiseVariances : New(c, nv)
    \/ \E z \in ZScores : Step(z)
    \/ \E z \in ZScores : IterNext(z)
    \/ \E i \in 1..MaxN, v \in Coefs : MutateCaller(i, v)

Spec == Init /\ [][Next]_vars

\* ------------------------------------------------------------------ claims

\* The sum over i in 0..n-1 of w[i] * p[i], written index by index.
RECURSIVE Sigma(_, _, _)
Sigma(w, p, n) ==
    IF n = 0 THEN 0 ELSE Sigma(w, p, n - 1) + Mul(w[n], p[n])

\* The reference recurrence y_k = c + sum_i p[i] * y_(k-1-i) + e_k, with
\* y_j = 0 for j <= 0 (i counted from 0, p and e indexed from 1).
RECURSIVE RefSum(_, _, _, _, _)
RECURSIVE Ref(_, _, _, _)
RefSum(c, p, e, k, n) ==
    IF n = 0 THEN 0
    ELSE RefSum(c, p, e, k, n - 1) + Mul(p[n], Ref(c, p, e, k - n))

Ref(c, p, e, k) ==
    IF k <= 0 THEN 0 ELSE c + RefSum(c, p, e, k, Len(p)) + e[k]

\* The last element of a non-empty sequence.
Last(s) == s[Len(s)]

\* A transition in which a value was produced.
Produced == status = "live" /\ Len(outputs') = Len(outputs) + 1

\* C1: one call of step() returns c + (sum over i of w[i] * phi[i]) + epsilon,
\* with w the window as it was before the call and window index i paired with
\* coefficient index i.
C1_StepValue ==
    [][Produced =>
          /\ Last(outputs') =
                 ar.c + Sigma(ar.x, ar.phi, Len(ar.phi)) + Last(draws')
          /\ last'.op = "step" => last'.ret = Last(outputs')]_vars

C1_Witness ==
    /\ status = "live" /\ last.op = "step" /\ N = 2
    /\ Len(outputs) >= 3
    /\ ar.phi[1] # ar.phi[2]
    /\ outputs[Len(outputs) - 1] # outputs[Len(outputs) - 2]
    /\ Last(draws) # 0 /\ ar.c # 0

\* C2: after k steps on a fresh generator with N > 0, window[0] is the most
\* recent output, window[i] the output i steps before it for i < min(k, N),
\* the remaining positions hold the initial zeros, and nothing older than N
\* steps is kept.
C2_Window ==
    (status = "live" /\ N > 0) =>
        LET k == Len(outputs)
        IN  /\ DOMAIN ar.x = 1..N
            /\ \A i \in 1..N :
                  ar.x[i] = IF i <= k THEN outputs[k - i + 1] ELSE 0

C2_Witness ==
    /\ status = "live" /\ N = 2 /\ Len(outputs) = 3
    /\ outputs[1] # 0 /\ outputs[2] # 0 /\ outputs[3] # 0
    /\ outputs[1] # outputs[2] /\ outputs[2] # outputs[3]
    /\ outputs[1] # outputs[3]

\* C3: from the zero window and for fixed noise draws, the k-th output is y_k
\* of the reference recurrence; with offset 5, coefficients [0.5] and zero
\* noise the first three outputs are 5, 7.5 and 8.75.
C3_Recurrence ==
    status = "live" =>
        /\ \A k \in 1..Len(outputs) :
              outputs[k] = Ref(args.c, args.phi, draws, k)
        /\ ( /\ args.c = 5 * Scale
             /\ args.phi = <<Scale \div 2>>
             /\ \A k \in 1..Len(draws) : draws[k] = 0
             /\ Len(outputs) >= 3 )
           => /\ outputs[1] = 5 * Scale
              /\ outputs[2] * 2 = 15 * Scale
              /\ outputs[3] * 4 = 35 * Scale

C3_Witness ==
    /\ status = "live"
    /\ args.c = 5 * Scale /\ args.phi = <<Scale \div 2>>
    /\ args.noise_variance = 0
    /\ outputs = <<5 * Scale, (15 * Scale) \div 2, (35 * Scale) \div 4>>

\* C4 as stated: construction with a negative or non-finite noise_variance
\* hands the caller an InvalidParameter failure result, and no instance exists.
C4_ReturnsInvalidParameter ==
    (last.op = "new" /\ (args.noise_variance < 0 \/ is_nan(args.noise_variance)))
        => /\ last.ret = Err("InvalidParameter")
           /\ status # "live"

\* C4 amended: construction with a noise_variance that Normal::new rejects
\* (NaN always) panics in unwrap(); new() never hands back a failure result,
\* and after the panic no instance exists and no step was made.
C4_PanicsOnRejected ==
    /\ (status # "init" /\ is_nan(args.noise_variance)) => status = "panicked"
    /\ (last.op = "new") => (last.ret = Panic \/ (status = "live" /\ last.ret = ar))
    /\ (status = "panicked") =>
          /\ ar = NoAr
          /\ last = [op |-> "new", ret |-> Panic]
          /\ outputs = <<>> /\ draws = <<>> /\ pulls = 0
    /\ (status = "live") => ar # NoAr

C4_Witness ==
    status = "panicked" /\ args.noise_variance = NaN /\ ar = NoAr

\* C5: in every state reachable by step() / next() calls the window has
\* exactly N elements, the number of coefficients.
C5_WindowLength ==
    status = "live" =>
        /\ Len(ar.x) = N
        /\ Len(ar.phi) = N
        /\ Len(args.phi) = N

C5_Witness ==
    /\ status = "live" /\ N = 2 /\ Len(ar.x) = 2
    /\ Len(outputs) >= 3 /\ pulls >= 1 /\ pulls < Len(outputs)

\* C6: the noise source built by new() is a zero-mean Gaussian whose variance
\* equals the noise_variance argument, and every epsilon is drawn from it.
C6_VarianceIsArgument ==
    (status = "live" /\ args.noise_variance >= 0) =>
        /\ ar.noise.mean = 0
        /\ Variance(ar.noise) = args.noise_variance
        /\ \A k \in 1..Len(draws) :
              \E z \in ZScores : draws[k] = Sample(ar.noise, z)

\* C7: every next() returns a present value, performs exactly one step (one
\* noise draw, one window update), and continues from the window the earlier
\* pulls left.
C7_NextIsOneStep ==
    [][pulls' # pulls =>
          /\ pulls' = pulls + 1
          /\ last'.op = "next"
          /\ last'.ret # None
          /\ Len(outputs') = Len(outputs) + 1
          /\ Len(draws') = Len(draws) + 1
          /\ last'.ret = Some(Last(outputs'))
          /\ Last(outputs') =
                 ar.c + Sigma(ar.x, ar.phi, Len(ar.phi)) + Last(draws')
          /\ \A i \in 1..Len(ar.x) :
                 ar'.x[i] = IF i = 1 THEN Last(outputs') ELSE ar.x[i - 1]]_vars

C7_Witness ==
    /\ status = "live" /\ last.op = "next" /\ pulls >= 2 /\ N >= 1
    /\ \A k \in 1..Len(draws) : draws[k] = 0
    /\ Last(outputs) # outputs[1]

\* C8: offset, coefficients and noise parameters are those given to new();
\* no step changes them, and a change of the caller's array after new() does
\* not change the coefficients the generator uses.
C8_ParametersFixed ==
    [][status' = "live" =>
          /\ ar'.c = args'.c
          /\ ar'.phi = args'.phi
          /\ ar'.noise = [mean |-> 0, std_dev |-> args'.noise_variance]
          /\ status = "live" =>
                /\ ar'.c = ar.c
                /\ ar'.phi = ar.phi
                /\ ar'.noise = ar.noise
                /\ Produced =>
                      Last(outputs') =
                          args.c + Sigma(ar.x, args.phi, Len(args.phi))
                              + Last(draws')]_vars

C8_Witness ==
    /\ status = "live" /\ N = 2 /\ Len(outputs) >= 2
    /\ ar.phi[1] # ar.phi[2]
    /\ callerPhi # ar.phi
    /\ ar.phi = args.phi

\* C9: with an empty coefficient sequence every step() returns exactly
\* offset + epsilon and the window stays empty.
C9_OrderZero ==
    (status = "live" /\ N = 0) =>
        /\ ar.x = <<>>
        /\ \A k \in 1..Len(outputs) : outputs[k] = args.c + draws[k]

C9_Witness ==
    /\ status = "live" /\ N = 0 /\ Len(outputs) >= 2
    /\ args.c # 0 /\ Last(draws) # 0 /\ ar.x = <<>>

====
